---- MODULE Spec2Model ----
(***************************************************************************)
(* Model of split-pls.py: the PlaylistBuilder class (zero_list, append,    *)
(* write), the enumChannels generator, parseCliArgs and the __main__       *)
(* channel loop.                                                           *)
(*                                                                         *)
(* A Python str is a sequence of characters.  To keep values small a       *)
(* character run that the program only ever copies ("File", "http://",     *)
(* "prem1", ...) is one element of the sequence; the characters the        *)
(* program or a reader of its output acts on ("=", newline, tab, space,    *)
(* digits) are elements of their own.                                      *)
(***************************************************************************)
EXTENDS Integers, Sequences, FiniteSets, TLC

VARIABLES
    apiKey,     \* PlaylistBuilder.apiKey
    servers,    \* PlaylistBuilder.servers
    quality,    \* PlaylistBuilder.quality
    chanCount,  \* PlaylistBuilder.chanCount
    ini,        \* PlaylistBuilder.ini: the options of section 'playlist', in dict order
    out,        \* text the last call wrote to its file object (<<>>: it wrote nothing)
    hist,       \* the last three calls made on the builder, oldest first
    appended,   \* the (host, chanKey, chanText) recorded since the last zero_list
    argv,       \* command line as argparse leaves it (line 161)
    args,       \* the namespace parseCliArgs returns
    doc,        \* the <option> elements of the input document, in document order
    pos,        \* enumChannels: number of <option> elements consumed
    cur,        \* the (chanKey, chanText) pair the for loop is processing
    yielded,    \* every pair enumChannels has yielded
    stderr,     \* diagnostics printed to sys.stderr
    files,      \* files written by playlist_write, in order: <<basename, text>>
    pc          \* position in __main__

vars == <<apiKey, servers, quality, chanCount, ini, out, hist, appended,
          argv, args, doc, pos, cur, yielded, stderr, files, pc>>

builderVars == <<apiKey, servers, quality, chanCount, ini, out, hist, appended>>
mainVars == <<argv, args, doc, pos, cur, yielded, stderr, files, pc>>

---------------------------------------------------------------------------
(* Bounds *)

MaxServers == 2     \* longest server list
MaxCount == 4       \* most entries recorded between two resets
MaxOptions == 3     \* most <option> elements in the input document

---------------------------------------------------------------------------
(* Strings *)

NL == "\n"
TAB == "\t"
SP == " "

Digit(d) ==
    CASE d = 0 -> "0" [] d = 1 -> "1" [] d = 2 -> "2" [] d = 3 -> "3"
      [] d = 4 -> "4" [] d = 5 -> "5" [] d = 6 -> "6" [] d = 7 -> "7"
      [] d = 8 -> "8" [] d = 9 -> "9"

\* str(n) of a non-negative int: its decimal digits
RECURSIVE str(_)
str(n) == IF n < 10 THEN <<Digit(n)>> ELSE str(n \div 10) \o <<Digit(n % 10)>>

\* str.strip(): leading and trailing whitespace removed
IsSpace(c) == c \in {SP, NL, TAB}

RECURSIVE lstrip(_)
lstrip(s) == IF s /= <<>> /\ IsSpace(Head(s)) THEN lstrip(Tail(s)) ELSE s

RECURSIVE rstrip(_)
rstrip(s) ==
    IF s /= <<>> /\ IsSpace(s[Len(s)]) THEN rstrip(SubSeq(s, 1, Len(s) - 1)) ELSE s

strip(s) == rstrip(lstrip(s))

\* str.replace('\n', '\n\t')
RECURSIVE replaceNL(_)
replaceNL(s) ==
    IF s = <<>> THEN <<>>
    ELSE (IF Head(s) = NL THEN <<NL, TAB>> ELSE <<Head(s)>>) \o replaceNL(Tail(s))

---------------------------------------------------------------------------
(* PlaylistBuilder *)

\* self.ini.optionxform = lambda opt: opt
optionxform(opt) == opt

\* ConfigParser.set: sectdict[optionxform(option)] = value; a dict keeps a key's
\* first position when its value is replaced
iniSet(d, option, value) ==
    LET key == optionxform(option) IN
    IF \E i \in 1..Len(d) : d[i][1] = key
    THEN [i \in 1..Len(d) |-> IF d[i][1] = key THEN <<key, value>> ELSE d[i]]
    ELSE Append(d, <<key, value>>)

\* f'http://{host}.di.fm:80/{chanKey}{self.quality}?{self.apiKey}'
fileUrl(host, chanKey, q, k) ==
    <<"http://">> \o host \o <<".di.fm:80/">> \o chanKey \o q \o <<"?">> \o k

\* One iteration of append's loop, on b = [chanCount, ini]
staleIndexAppendHost(b, host, chanKey, chanText, q, k) ==
    LET n == b.chanCount + 1 IN
    [chanCount |-> b.chanCount,
     ini |-> iniSet(iniSet(iniSet(b.ini,
                 <<"File">> \o str(n), fileUrl(host, chanKey, q, k)),
                 <<"Title">> \o str(n), chanText),
                 <<"Length">> \o str(n), <<"-", "1">>)]

appendHost(b, host, chanKey, chanText, q, k) ==
    LET n == b.chanCount + 1 IN
    [chanCount |-> n,
     ini |-> iniSet(iniSet(iniSet(b.ini,
                 <<"File">> \o str(n), fileUrl(host, chanKey, q, k)),
                 <<"Title">> \o str(n), chanText),
                 <<"Length">> \o str(n), <<"-", "1">>)]

\* for host in self.servers: ...
RECURSIVE dropLastHostAppendLoop(_, _, _, _, _, _)
dropLastHostAppendLoop(b, hosts, chanKey, chanText, q, k) ==
    IF Len(hosts) <= 1 THEN b
    ELSE appendHost(dropLastHostAppendLoop(b, SubSeq(hosts, 1, Len(hosts) - 1),
                                           chanKey, chanText, q, k),
                    hosts[Len(hosts) - 1], chanKey, chanText, q, k)

RECURSIVE appendLoop(_, _, _, _, _, _)
appendLoop(b, hosts, chanKey, chanText, q, k) ==
    IF hosts = <<>> THEN b
    ELSE appendLoop(appendHost(b, Head(hosts), chanKey, chanText, q, k),
                    Tail(hosts), chanKey, chanText, q, k)

\* write: the two footer options
staleFooter(d, count) ==
    IF \E i \in 1..Len(d) : d[i][1] = optionxform(<<"NumberOfEntries">>) THEN d
    ELSE iniSet(iniSet(d, <<"NumberOfEntries">>, str(count)), <<"Version">>, <<"2">>)

footer(d, count) ==
    iniSet(iniSet(d, <<"NumberOfEntries">>, str(count)), <<"Version">>, <<"2">>)

\* ConfigParser.write(out, space_around_delimiters=False) of the one section
RECURSIVE writeItems(_)
writeItems(d) ==
    IF d = <<>> THEN <<>>
    ELSE Head(d)[1] \o <<"=">> \o replaceNL(Head(d)[2]) \o <<NL>> \o writeItems(Tail(d))

iniWrite(d) == <<"[playlist]", NL>> \o writeItems(d) \o <<NL>>

hostRecords(hosts, chanKey, chanText) ==
    [i \in 1..Len(hosts) |-> [host |-> hosts[i], chanKey |-> chanKey, chanText |-> chanText]]

\* the three methods, as changes of the builder's variables
keepIniZeroList ==
    /\ chanCount' = 0
    /\ ini' = ini
    /\ out' = <<>>
    /\ appended' = <<>>
    /\ hist' = <<hist[2], hist[3], "zero_list">>
    /\ UNCHANGED <<apiKey, servers, quality>>

zero_list ==
    /\ chanCount' = 0
    /\ ini' = <<>>
    /\ out' = <<>>
    /\ appended' = <<>>
    /\ hist' = <<hist[2], hist[3], "zero_list">>
    /\ UNCHANGED <<apiKey, servers, quality>>

append(chanKey, chanText) ==
    LET b == appendLoop([chanCount |-> chanCount, ini |-> ini],
                        servers, chanKey, chanText, quality, apiKey) IN
    /\ chanCount' = b.chanCount
    /\ ini' = b.ini
    /\ out' = <<>>
    /\ appended' = appended \o hostRecords(servers, chanKey, chanText)
    /\ hist' = <<hist[2], hist[3], "append">>
    /\ UNCHANGED <<apiKey, servers, quality>>

write ==
    /\ ini' = footer(ini, chanCount)
    /\ out' = iniWrite(ini')
    /\ hist' = <<hist[2], hist[3], "write">>
    /\ UNCHANGED <<apiKey, servers, quality, chanCount, appended>>

---------------------------------------------------------------------------
(* Inputs *)

Hosts == {<<"prem1">>, <<"prem4">>}
Qualities == {<<>>, <<"_aac">>, <<"_hi">>}
ApiKeys == {<<"abc123">>}
\* channels: (chanKey, chanText)
Channels == {<< <<"trance">>, <<"Trance">> >>,
             << <<"house">>, <<"Deep", NL, "House">> >>,
             << <<"ambient">>, <<>> >>}

RECURSIVE SeqsUpTo(_, _)
SeqsUpTo(S, n) ==
    IF n = 0 THEN {<<>>}
    ELSE LET R == SeqsUpTo(S, n - 1) IN
         R \cup {Append(s, x) : s \in {r \in R : Len(r) = n - 1}, x \in S}

None == [some |-> FALSE, val |-> <<>>]
Some(v) == [some |-> TRUE, val |-> v]

---------------------------------------------------------------------------
(* Calls on one PlaylistBuilder, in any order *)

Init ==
    /\ apiKey \in ApiKeys
    /\ servers \in SeqsUpTo(Hosts, MaxServers)
    /\ quality \in Qualities
    /\ chanCount = 0
    /\ ini = <<>>
    /\ out = <<>>
    /\ appended = <<>>
    /\ hist = <<"", "", "__init__">>
    /\ argv = None /\ args = None /\ doc = <<>> /\ pos = 0 /\ cur = None
    /\ yielded = <<>> /\ stderr = <<>> /\ files = <<>> /\ pc = "api"

Reset == zero_list /\ UNCHANGED mainVars

Append1 ==
    /\ chanCount + Len(servers) <= MaxCount
    /\ \E c \in Channels : append(c[1], c[2])
    /\ UNCHANGED mainVars

Write == write /\ UNCHANGED mainVars

Next == Reset \/ Append1 \/ Write

Spec == Init /\ [][Next]_vars

---------------------------------------------------------------------------
(* enumChannels *)

\* Element.get('value'): the attribute's value, or None
get(option, name) ==
    IF \E i \in 1..Len(option.attrib) : option.attrib[i][1] = name
    THEN Some(option.attrib[CHOOSE i \in 1..Len(option.attrib) :
                                option.attrib[i][1] = name][2])
    ELSE None

\* What the generator does with one <option> element (lines 101-117):
\* "raise" (None has no strip), "skip", "complain" or "yield"
outcome(option) ==
    LET chanKey == get(option, "value") IN
    IF ~option.text.some THEN "raise"
    ELSE IF chanKey.some /\ chanKey.val = <<>> THEN "skip"
    ELSE IF ~chanKey.some THEN "complain"
    ELSE "yield"

\* the diagnostic of line 111: the element's attributes
diagnostic(option) == <<"Ignoring bad <option> tag, with attrs: ">> \o
    [i \in 1..Len(option.attrib) |-> option.attrib[i]]

---------------------------------------------------------------------------
(* parseCliArgs *)

\* a Python slice s[0:stop]
slice0(s, stop) ==
    LET n == IF stop >= 0 THEN (IF stop < Len(s) THEN stop ELSE Len(s))
             ELSE (IF Len(s) + stop > 0 THEN Len(s) + stop ELSE 0) IN
    SubSeq(s, 1, n)

\* bool(args.file): neither None nor ''
fileMode(a) == a.file.some /\ a.file.val /= <<>>

\* lines 163-173, on the namespace parse_args returns
parseCliArgs(a) ==
    LET srv == IF ~a.servers.some \/ a.servers.val = <<>>
               THEN << <<"prem1">>, <<"prem4">> >> ELSE a.servers.val
        max == IF ~a.max.some \/ a.max.val = 0
               THEN (IF fileMode(a) THEN 1 ELSE Len(srv)) ELSE a.max.val
    IN [quality |-> a.quality, servers |-> slice0(srv, max), max |-> max, file |-> a.file]

---------------------------------------------------------------------------
(* __main__ *)

Option(attrib, text) == [attrib |-> attrib, text |-> text]

Options ==
    {Option(<< <<"value", <<"trance">> >> >>, Some(<<SP, "Trance", SP>>)),
     Option(<< <<"value", <<"house">> >> >>, Some(<<"House">>)),
     Option(<< <<"value", <<>> >> >>, Some(<<"Select">>)),
     Option(<< <<"class", <<"x">> >> >>, Some(<<"Bad">>)),
     Option(<< <<"value", <<>> >> >>, None)}

MainArgv ==
    [quality : {<<>>, <<"_hi">>},
     servers : {None, Some(<< <<"prem2">> >>)},
     max : {None, Some(2)},
     file : {None, Some(<<>>), Some(<<"all">>)}]

InitMain ==
    /\ argv \in MainArgv
    /\ doc \in SeqsUpTo(Options, MaxOptions)
    /\ args = None /\ pos = 0 /\ cur = None
    /\ yielded = <<>> /\ stderr = <<>> /\ files = <<>> /\ pc = "parse"
    /\ apiKey = <<>> /\ servers = <<>> /\ quality = <<>>
    /\ chanCount = 0 /\ ini = <<>> /\ out = <<>> /\ appended = <<>>
    /\ hist = <<"", "", "">>

\* line 177
ParseArgs ==
    /\ pc = "parse"
    /\ args' = parseCliArgs(argv)
    /\ pc' = "construct"
    /\ UNCHANGED <<argv, doc, pos, cur, yielded, stderr, files>>
    /\ UNCHANGED builderVars

\* lines 180 and 193: the listen key typed at the prompt, then __init__
Construct ==
    /\ pc = "construct"
    /\ apiKey' \in ApiKeys
    /\ servers' = args.servers
    /\ quality' = args.quality
    /\ chanCount' = 0 /\ ini' = <<>> /\ out' = <<>> /\ appended' = <<>>
    /\ hist' = <<"", "", "__init__">>
    /\ pc' = "enum"
    /\ UNCHANGED <<argv, args, doc, pos, cur, yielded, stderr, files>>

\* line 203: the for loop asks the generator for its next pair
EnumStop ==
    /\ pc = "enum" /\ pos = Len(doc)
    /\ pc' = "final"
    /\ UNCHANGED <<argv, args, doc, pos, cur, yielded, stderr, files>>
    /\ UNCHANGED builderVars

EnumRaise ==
    /\ pc = "enum" /\ pos < Len(doc) /\ outcome(doc[pos + 1]) = "raise"
    /\ pos' = pos + 1
    /\ pc' = "raised"
    /\ UNCHANGED <<argv, args, doc, cur, yielded, stderr, files>>
    /\ UNCHANGED builderVars

EnumSkip ==
    /\ pc = "enum" /\ pos < Len(doc) /\ outcome(doc[pos + 1]) = "skip"
    /\ pos' = pos + 1
    /\ UNCHANGED <<argv, args, doc, cur, yielded, stderr, files, pc>>
    /\ UNCHANGED builderVars

EnumComplain ==
    /\ pc = "enum" /\ pos < Len(doc) /\ outcome(doc[pos + 1]) = "complain"
    /\ pos' = pos + 1
    /\ stderr' = Append(stderr, diagnostic(doc[pos + 1]))
    /\ UNCHANGED <<argv, args, doc, cur, yielded, files, pc>>
    /\ UNCHANGED builderVars

EnumYield ==
    /\ pc = "enum" /\ pos < Len(doc) /\ outcome(doc[pos + 1]) = "yield"
    /\ pos' = pos + 1
    /\ cur' = Some(<<get(doc[pos + 1], "value").val, strip(doc[pos + 1].text.val)>>)
    /\ yielded' = Append(yielded, cur'.val)
    /\ pc' = "reset"
    /\ UNCHANGED <<argv, args, doc, stderr, files>>
    /\ UNCHANGED builderVars

\* line 206
neverBodyReset ==
    /\ pc = "reset"
    /\ UNCHANGED builderVars
    /\ pc' = "append"
    /\ UNCHANGED <<argv, args, doc, pos, cur, yielded, stderr, files>>

alwaysBodyReset ==
    /\ pc = "reset"
    /\ zero_list
    /\ pc' = "append"
    /\ UNCHANGED <<argv, args, doc, pos, cur, yielded, stderr, files>>

BodyReset ==
    /\ pc = "reset"
    /\ IF ~fileMode(args) THEN zero_list ELSE UNCHANGED builderVars
    /\ pc' = "append"
    /\ UNCHANGED <<argv, args, doc, pos, cur, yielded, stderr, files>>

\* line 207
BodyAppend ==
    /\ pc = "append"
    /\ append(cur.val[1], cur.val[2])
    /\ pc' = "write"
    /\ UNCHANGED <<argv, args, doc, pos, cur, yielded, stderr, files>>

\* line 210, through playlist_write (lines 196-199)
BodyWrite ==
    /\ pc = "write"
    /\ IF ~fileMode(args)
       THEN /\ write
            /\ files' = Append(files, <<cur.val[1] \o <<".pls">>, out'>>)
       ELSE UNCHANGED <<builderVars, files>>
    /\ pc' = "enum"
    /\ UNCHANGED <<argv, args, doc, pos, cur, yielded, stderr>>

\* line 213
FinalWrite ==
    /\ pc = "final"
    /\ IF fileMode(args)
       THEN /\ write
            /\ files' = Append(files, <<args.file.val \o <<".pls">>, out'>>)
       ELSE UNCHANGED <<builderVars, files>>
    /\ pc' = "done"
    /\ UNCHANGED <<argv, args, doc, pos, cur, yielded, stderr>>

NextMain ==
    \/ ParseArgs \/ Construct
    \/ EnumStop \/ EnumRaise \/ EnumSkip \/ EnumComplain \/ EnumYield
    \/ BodyReset \/ BodyAppend \/ BodyWrite \/ FinalWrite

SpecMain == InitMain /\ [][NextMain]_vars

---------------------------------------------------------------------------
(* parseCliArgs on its own, over the command lines argparse accepts *)

CliArgv ==
    [quality : Qualities,
     servers : {None} \cup {Some(s) : s \in SeqsUpTo(Hosts \cup {<<"prem2">>}, MaxServers) \ {<<>>}},
     max : {None} \cup {Some(m) : m \in (0 - MaxServers - 1)..(MaxServers + 1)},
     file : {None, Some(<<"all">>)}]

InitCli ==
    /\ argv \in CliArgv
    /\ args = None /\ doc = <<>> /\ pos = 0 /\ cur = None
    /\ yielded = <<>> /\ stderr = <<>> /\ files = <<>> /\ pc = "parse"
    /\ apiKey = <<>> /\ servers = <<>> /\ quality = <<>>
    /\ chanCount = 0 /\ ini = <<>> /\ out = <<>> /\ appended = <<>>
    /\ hist = <<"", "", "">>

NextCli == ParseArgs

SpecCli == InitCli /\ [][NextCli]_vars

---------------------------------------------------------------------------
(* Reading a written text as generic key=value lines *)

\* the lines of a text: the runs between its newlines
Breaks(t) == {0} \cup {i \in 1..Len(t) : t[i] = NL}

LinesAt(t, B) ==
    LET from(k) == CHOOSE x \in B : Cardinality({y \in B : y < x}) = k - 1
        upto(x) == IF \E y \in B : y > x
                   THEN (CHOOSE y \in B : y > x /\ \A z \in B : z > x => y <= z) - 1
                   ELSE Len(t)
    IN [k \in 1..Cardinality(B) |-> SubSeq(t, from(k) + 1, upto(from(k)))]

Lines(t) == CHOOSE ls \in {LinesAt(t, B) : B \in {Breaks(t)}} : TRUE

HasEq(line) == \E i \in 1..Len(line) : line[i] = "="

KeyValue(line) ==
    LET i == CHOOSE i \in 1..Len(line) :
                 line[i] = "=" /\ \A j \in 1..(i - 1) : line[j] /= "=" IN
    <<SubSeq(line, 1, i - 1), SubSeq(line, i + 1, Len(line))>>

RECURSIVE PairsOf(_)
PairsOf(ls) ==
    IF ls = <<>> THEN <<>>
    ELSE (IF HasEq(Head(ls)) THEN <<KeyValue(Head(ls))>> ELSE <<>>) \o PairsOf(Tail(ls))

\* the key=value pairs of a text, in the order of its lines
KeyValues(text) == CHOOSE kv \in {PairsOf(ls) : ls \in {Lines(text)}} : TRUE

EntryNames == {"File", "Title", "Length"}

MaxIndex == MaxCount + MaxOptions * (MaxServers + 1)

IsEntryKey(key) ==
    /\ Len(key) >= 2
    /\ key[1] \in EntryNames
    /\ \E n \in 1..MaxIndex : Tail(key) = str(n)

IndexOf(key) == CHOOSE n \in 1..MaxIndex : Tail(key) = str(n)

RECURSIVE SelectPairs(_, _)
SelectPairs(kv, names) ==
    IF kv = <<>> THEN <<>>
    ELSE (IF IsEntryKey(Head(kv)[1]) /\ Head(kv)[1][1] \in names
          THEN <<Head(kv)>> ELSE <<>>) \o SelectPairs(Tail(kv), names)

KeysIn(kv) == [i \in 1..Len(kv) |-> kv[i][1]]

FooterIn(kv) == {i \in 1..Len(kv) : kv[i][1] \in {<<"NumberOfEntries">>, <<"Version">>}}

ValuesIn(kv, key) == {kv[i][2] : i \in {j \in 1..Len(kv) : kv[j][1] = key}}

TriplesIn(kv) ==
    {n \in 1..Len(kv) :
        \A name \in EntryNames : \E i \in 1..Len(kv) : kv[i][1] = <<name>> \o str(n)}

IndicesIn(e) == [i \in 1..Len(e) |-> IndexOf(e[i][1])]

Ascending(s) == \A i \in 1..(Len(s) - 1) : s[i] <= s[i + 1]

RECURSIVE EntryKeysFrom(_, _)
EntryKeysFrom(n, last) ==
    IF n > last THEN <<>>
    ELSE << <<"File">> \o str(n), <<"Title">> \o str(n), <<"Length">> \o str(n) >>
         \o EntryKeysFrom(n + 1, last)

FooterKeys == << <<"NumberOfEntries">>, <<"Version">> >>

ExpectedUrl(e) ==
    <<"http://">> \o e.host \o <<".di.fm:80/">> \o e.chanKey \o quality \o <<"?">> \o apiKey

---------------------------------------------------------------------------
(* C1: in every text write produces, the value of NumberOfEntries is the    *)
(* decimal form of the number of File<i>/Title<i>/Length<i> triples in that *)
(* text.                                                                   *)
\* C1: NumberOfEntries in a written text = number of File/Title/Length triples in it
C1_NumberOfEntriesCountsTriples ==
    hist[3] = "write" =>
        \A kv \in {KeyValues(out)} :
            ValuesIn(kv, <<"NumberOfEntries">>) = {str(Cardinality(TriplesIn(kv)))}

C1_Witness ==
    /\ hist = <<"write", "append", "write">>
    /\ chanCount >= 2
    /\ Cardinality(TriplesIn(KeyValues(out))) = chanCount

(* C2: an append call assigns the indices chanCount+1 .. chanCount+|servers| *)
(* in server-list order, raises chanCount by |servers| and leaves every     *)
(* option recorded before it as it was; the k-th entry recorded since the   *)
(* last reset is stored under index k.                                      *)
C2_AppendStep ==
    hist'[3] = "append" =>
        \E chanKey \in {c[1] : c \in Channels}, chanText \in {c[2] : c \in Channels} :
            /\ chanCount' = chanCount + Len(servers)
            /\ Len(ini') = Len(ini) + 3 * Len(servers)
            /\ \A i \in 1..Len(ini) : ini'[i] = ini[i]
            /\ \A j \in 1..Len(servers) :
                 LET at == Len(ini) + 3 * (j - 1)
                     n == str(chanCount + j) IN
                 /\ ini'[at + 1] = << <<"File">> \o n,
                                      ExpectedUrl([host |-> servers[j], chanKey |-> chanKey]) >>
                 /\ ini'[at + 2] = << <<"Title">> \o n, chanText >>
                 /\ ini'[at + 3] = << <<"Length">> \o n, <<"-", "1">> >>

C2_KthEntryHasIndexK ==
    /\ Len(appended) = chanCount
    /\ \A k \in 1..Len(appended) :
         \E i \in 1..Len(ini) :
             ini[i] = << <<"File">> \o str(k), ExpectedUrl(appended[k]) >>

\* C2: every step that is an append assigns the next indices and keeps earlier options
C2_IndicesNeverReused == [][C2_AppendStep]_vars /\ []C2_KthEntryHasIndexK

C2_Witness ==
    /\ hist[2] = "append" /\ hist[3] = "append"
    /\ Len(servers) = 2 /\ servers[1] = servers[2]
    /\ chanCount = 4
    /\ appended[1].chanKey = appended[3].chanKey

(* C3: every text write produces is the [playlist] header, the File, Title  *)
(* and Length lines of the recorded entries in ascending index order, and   *)
(* then NumberOfEntries and Version after every entry line.                 *)
\* C3, as claimed: header, entries in ascending index order, then the footer
C3_FooterAfterEntries ==
    hist[3] = "write" =>
        /\ Head(Lines(out)) = <<"[playlist]">>
        /\ KeysIn(KeyValues(out)) = EntryKeysFrom(1, chanCount) \o FooterKeys

(* C4: zero_list leaves chanCount 0 and no option, whatever the state       *)
(* before; a write right after it gives NumberOfEntries=0 and no entry       *)
(* line, and an append right after it starts again at index 1.              *)
EmptyPlaylistText ==
    <<"[playlist]", NL, "NumberOfEntries", "=", "0", NL, "Version", "=", "2", NL, NL>>

\* C4: the state after zero_list is empty, and write or append after it start afresh
C4_ResetEmpties ==
    /\ hist[3] = "zero_list" => chanCount = 0 /\ ini = <<>> /\ appended = <<>>
    /\ hist[2] = "zero_list" /\ hist[3] = "write" =>
           out = EmptyPlaylistText /\ SelectPairs(KeyValues(out), EntryNames) = <<>>
    /\ hist[2] = "zero_list" /\ hist[3] = "append" /\ servers /= <<>> =>
           /\ ini[1][1] = <<"File", "1">>
           /\ chanCount = Len(servers)

C4_Witness ==
    /\ hist = <<"append", "zero_list", "write">>
    /\ servers /= <<>>
    /\ out = EmptyPlaylistText

(* C5: one append on a new builder with a non-empty server list, then       *)
(* write: 3 x |servers| entry lines and 2 footer lines.  As claimed, the    *)
(* indices are 1..3 x |servers|; as amended, they are 1..|servers|, each on  *)
(* its File, Title and Length line, ascending.                              *)
FreshAppendWrite == hist = <<"__init__", "append", "write">> /\ servers /= <<>>

\* C5, as claimed: the indices are 1..3 x |servers|
C5_Original ==
    FreshAppendWrite =>
        \A kv \in {KeyValues(out)} : \A e \in {SelectPairs(kv, EntryNames)} :
            /\ Len(e) = 3 * Len(servers)
            /\ Cardinality(FooterIn(kv)) = 2
            /\ {IndicesIn(e)[i] : i \in 1..Len(e)} = 1..(3 * Len(servers))
            /\ Ascending(IndicesIn(e))

\* C5, as amended: the indices are 1..|servers|
C5_Amended ==
    FreshAppendWrite =>
        \A kv \in {KeyValues(out)} : \A e \in {SelectPairs(kv, EntryNames)} :
            /\ Len(e) = 3 * Len(servers)
            /\ Cardinality(FooterIn(kv)) = 2
            /\ {IndicesIn(e)[i] : i \in 1..Len(e)} = 1..Len(servers)
            /\ Ascending(IndicesIn(e))
            /\ KeysIn(kv) = EntryKeysFrom(1, Len(servers)) \o FooterKeys

C5_Witness ==
    /\ FreshAppendWrite
    /\ Len(servers) = 2
    /\ Len(SelectPairs(KeyValues(out), EntryNames)) = 6

(* C7: the File<i>, Title<i> and Length<i> values read back from a written  *)
(* text are the entries appended since the last reset: the url, the title   *)
(* as given and -1, in append order, under case-preserved keys.             *)
Recovered(kv) ==
    LET f == SelectPairs(kv, {"File"}) IN
    [i \in 1..Len(f) |->
        [key |-> f[i][1],
         url |-> f[i][2],
         title |-> ValuesIn(kv, <<"Title">> \o Tail(f[i][1])),
         length |-> ValuesIn(kv, <<"Length">> \o Tail(f[i][1]))]]

\* C7, as claimed: the entries read back are the entries appended
C7_RoundTrip ==
    hist[3] = "write" =>
        \A kv \in {KeyValues(out)} : Recovered(kv) =
            [k \in 1..Len(appended) |->
                [key |-> <<"File">> \o str(k),
                 url |-> ExpectedUrl(appended[k]),
                 title |-> {appended[k].chanText},
                 length |-> {<<"-", "1">>}]]

(* C6: single-file mode over two channels A then B: the running index goes  *)
(* on across the channels.  As claimed, with one server each the file holds *)
(* entries 1-2 for A, 3-4 for B and NumberOfEntries=4; as amended, with n    *)
(* servers it holds entries 1..n for A, n+1..2n for B and NumberOfEntries=2n *)
(* (one server: entry 1 for A, entry 2 for B, NumberOfEntries=2).           *)
TwoChannelsOneFile == pc = "done" /\ fileMode(args) /\ Len(yielded) = 2

EntryIsFor(kv, n, chanKey) ==
    \E j \in 1..Len(servers) :
        ValuesIn(kv, <<"File">> \o str(n)) =
            {ExpectedUrl([host |-> servers[j], chanKey |-> chanKey])}

\* C6, as claimed: one server, entries 1-2 for A, 3-4 for B, NumberOfEntries=4
C6_Original ==
    TwoChannelsOneFile /\ Len(servers) = 1 =>
        \A kv \in {KeyValues(files[1][2])} :
            /\ EntryIsFor(kv, 1, yielded[1][1]) /\ EntryIsFor(kv, 2, yielded[1][1])
            /\ EntryIsFor(kv, 3, yielded[2][1]) /\ EntryIsFor(kv, 4, yielded[2][1])
            /\ ValuesIn(kv, <<"NumberOfEntries">>) = {<<"4">>}

\* C6, as amended: n servers, entries 1..n for A, n+1..2n for B, NumberOfEntries=2n
C6_Amended ==
    TwoChannelsOneFile =>
        /\ Len(files) = 1
        /\ \A kv \in {KeyValues(files[1][2])} :
            /\ \A c \in 1..2 : \A j \in 1..Len(servers) :
                 ValuesIn(kv, <<"File">> \o str((c - 1) * Len(servers) + j)) =
                     {ExpectedUrl([host |-> servers[j], chanKey |-> yielded[c][1]])}
            /\ Len(SelectPairs(kv, {"File"})) = 2 * Len(servers)
            /\ ValuesIn(kv, <<"NumberOfEntries">>) = {str(2 * Len(servers))}

C6_Witness ==
    /\ TwoChannelsOneFile
    /\ Len(servers) = 1
    /\ yielded[1][1] /= yielded[2][1]
    /\ ValuesIn(KeyValues(files[1][2]), <<"NumberOfEntries">>) = {<<"2">>}

(* C8: no <option> element aborts the enumeration: an option without a      *)
(* value attribute gets one diagnostic and is skipped, one with an empty    *)
(* value is skipped silently, and every option with a non-empty value is    *)
(* yielded, in document order, as (value, trimmed text).                    *)
RECURSIVE ExpectedPairs(_)
ExpectedPairs(d) ==
    IF d = <<>> THEN <<>>
    ELSE LET v == get(Head(d), "value") IN
         (IF v.some /\ v.val /= <<>>
          THEN << <<v.val, strip(Head(d).text.val)>> >> ELSE <<>>)
         \o ExpectedPairs(Tail(d))

\* C8, as claimed: the enumeration never aborts and yields every keyed option
C8_NeverAborts ==
    /\ pc /= "raised"
    /\ pc \in {"final", "done"} =>
         /\ yielded = ExpectedPairs(doc)
         /\ Len(stderr) = Cardinality({i \in 1..Len(doc) : ~get(doc[i], "value").some})

(* C9: the server list handed to the builder is a prefix of the configured  *)
(* list (the default prem1, prem4 when none is given) of at most max         *)
(* entries for every integer max given, 0 and negative ones included (no     *)
(* entry then); only an unset max stands for 1 in single-file mode and for   *)
(* the whole list in per-channel mode.                                      *)
Configured(a) == IF a.servers.some THEN a.servers.val ELSE << <<"prem1">>, <<"prem4">> >>

IsPrefix(s, t) == Len(s) <= Len(t) /\ s = SubSeq(t, 1, Len(s))

AtMost(s, t, m) == IsPrefix(s, t) /\ Len(s) <= (IF m < 0 THEN 0 ELSE m)

Truncated(t, m) == SubSeq(t, 1, IF m < Len(t) THEN m ELSE Len(t))

\* C9, as claimed
C9_MaxCapsServers ==
    pc = "construct" =>
        IF argv.max.some THEN AtMost(args.servers, Configured(argv), argv.max.val)
        ELSE args.servers = Truncated(Configured(argv),
                                      IF fileMode(argv) THEN 1 ELSE Len(Configured(argv)))

(* C10: in per-channel mode the loop does zero_list, append, write, in that *)
(* order, once per channel yielded, and the file written for a channel is    *)
(* what a new builder gives for that channel alone: |servers| entries        *)
(* indexed 1..|servers|; in single-file mode the loop neither resets nor     *)
(* writes, and one write follows the last append.                           *)
AloneText(c) ==
    iniWrite(footer(appendLoop([chanCount |-> 0, ini |-> <<>>], servers,
                               c[1], c[2], quality, apiKey).ini, Len(servers)))

LoopsDone == IF pc \in {"reset", "append", "write"} THEN Len(yielded) - 1 ELSE Len(yielded)

C10_PerChannel ==
    /\ Len(files) = LoopsDone
    /\ \A i \in 1..Len(files) :
         /\ files[i] = <<yielded[i][1] \o <<".pls">>, AloneText(yielded[i])>>
         /\ \A kv \in {KeyValues(files[i][2])} :
              /\ KeysIn(kv) = EntryKeysFrom(1, Len(servers)) \o FooterKeys
              /\ \A j \in 1..Len(servers) :
                   ValuesIn(kv, <<"File">> \o str(j)) =
                       {ExpectedUrl([host |-> servers[j], chanKey |-> yielded[i][1]])}
    /\ pc = "append" => hist[3] = "zero_list"
    /\ pc = "write" => hist[2] = "zero_list" /\ hist[3] = "append"
    /\ pc \in {"enum", "final", "done", "raised"} /\ yielded /= <<>> =>
         hist = <<"zero_list", "append", "write">>

C10_SingleFile ==
    /\ \A i \in 1..3 : hist[i] /= "zero_list"
    /\ pc /= "done" => files = <<>> /\ hist[3] /= "write"
    /\ pc = "done" =>
         /\ Len(files) = 1
         /\ hist[3] = "write"
         /\ yielded /= <<>> => hist[2] = "append"
         /\ chanCount = Len(yielded) * Len(servers)
         /\ files[1] = <<args.file.val \o <<".pls">>, out>>

\* C10: once the builder exists, the loop follows the order of its mode
C10_LoopOrder ==
    pc \notin {"parse", "construct"} =>
        IF fileMode(args) THEN C10_SingleFile ELSE C10_PerChannel

C10_Witness ==
    /\ pc = "done" /\ ~fileMode(args)
    /\ Len(files) = 2 /\ Len(servers) = 2
    /\ files[1][1] /= files[2][1]
    /\ Len(SelectPairs(KeyValues(files[2][2]), {"File"})) = 2

====
